---- MODULE Spec2Model ----
(***************************************************************************)
(* Model of src/rufus-ai/src/App.tsx: the App component, the element tree  *)
(* it returns, and the browser events that can reach that tree (typing in  *)
(* the uncontrolled text input, activating a button, following a link,     *)
(* re-rendering the component).                                            *)
(*                                                                         *)
(* An element is a record [tag, attrs, text, children]; attrs is a record  *)
(* holding exactly the attributes the JSX writes, a text node has tag      *)
(* "#text".  A position in the tree is a path: the sequence of 1-based     *)
(* child indices from the root, <<>> being the root itself.                *)
(***************************************************************************)
EXTENDS Integers, Sequences, FiniteSets, TLC

\* ---------------------------------------------------------------- bounds
MaxRenders == 3
MaxActivations == 2
MaxLen == 2
Keys == {"a", "b"}

\* ------------------------------------------------------ element builders
NoAttrs == [a \in {} |-> ""]

El(tag, attrs, children) ==
  [tag |-> tag, attrs |-> attrs, text |-> "", children |-> children]

Txt(s) ==
  [tag |-> "#text", attrs |-> NoAttrs, text |-> s, children |-> <<>>]

\* ------------------------------------------------------- the JSX of App
\* (the em dash U+2014 of the source text is written "--": strings are ASCII)
Brand ==
  El("div", [className |-> "brand"], <<
    El("img", [src |-> "/vite.svg", className |-> "logo", alt |-> "Rufus AI logo"], <<>>),
    El("div", NoAttrs, <<
      El("h1", NoAttrs, <<Txt("Rufus AI")>>),
      El("p", [className |-> "tagline"],
         <<Txt("A helper for UC Merced students, parents, and faculty.")>>)
    >>)
  >>)

SiteNavNoLabel ==
  El("nav", [className |-> "site-nav"], <<
    El("a", [href |-> "#students"], <<Txt("Students")>>),
    El("a", [href |-> "#parents"], <<Txt("Parents")>>),
    El("a", [href |-> "#faculty"], <<Txt("Faculty/Staff")>>)
  >>)

SiteNav ==
  El("nav", [className |-> "site-nav"] @@ ("aria-label" :> "Primary"), <<
    El("a", [href |-> "#students"], <<Txt("Students")>>),
    El("a", [href |-> "#parents"], <<Txt("Parents")>>),
    El("a", [href |-> "#faculty"], <<Txt("Faculty/Staff")>>)
  >>)

SiteHeader ==
  El("header", [className |-> "site-header"], <<Brand, SiteNav>>)

HeroText ==
  "Answers and help for everything UC Merced -- registration, campus life, and resources."

HeroHeadingOtherId ==
  El("h2", [id |-> "students"], <<Txt(HeroText)>>)

HeroHeading ==
  El("h2", [id |-> "hero-heading"], <<Txt(HeroText)>>)

SearchPlaceholder == "e.g., How do I register for CS 101?"

SearchUnlabelled ==
  El("div", [className |-> "search"], <<
    El("input", [type |-> "text", placeholder |-> SearchPlaceholder], <<>>),
    El("button", [className |-> "primary"], <<Txt("Ask Rufus")>>)
  >>)

SearchAsForm ==
  El("form", [className |-> "search"], <<
    El("input", [type |-> "text", placeholder |-> SearchPlaceholder] @@ ("aria-label" :> "Ask Rufus"), <<>>),
    El("button", [className |-> "primary"], <<Txt("Ask Rufus")>>)
  >>)

Search ==
  El("div", [className |-> "search"], <<
    El("input", [type |-> "text", placeholder |-> SearchPlaceholder] @@ ("aria-label" :> "Ask Rufus"), <<>>),
    El("button", [className |-> "primary"], <<Txt("Ask Rufus")>>)
  >>)

CtaRowOtherTarget ==
  El("div", [className |-> "cta-row"], <<
    El("button", [className |-> "primary"], <<Txt("Get Started")>>),
    El("a", [className |-> "learn", href |-> "#students"], <<Txt("Learn more")>>)
  >>)

CtaRow ==
  El("div", [className |-> "cta-row"], <<
    El("button", [className |-> "primary"], <<Txt("Get Started")>>),
    El("a", [className |-> "learn", href |-> "#learn-more"], <<Txt("Learn more")>>)
  >>)

Hero ==
  El("section", [className |-> "hero"] @@ ("aria-labelledby" :> "hero-heading"),
     <<HeroHeading, Search, CtaRow>>)

Article(title, body) ==
  El("article", NoAttrs, <<
    El("h3", NoAttrs, <<Txt(title)>>),
    El("p", NoAttrs, <<Txt(body)>>)
  >>)

FeaturesReordered ==
  El("section", [className |-> "features", id |-> "learn-more"], <<
    Article("Campus information",
            "Find maps, offices, events, and student services across campus."),
    Article("Course registration",
            "Step-by-step help with enrollment, deadlines, and prerequisites."),
    Article("Parents & faculty",
            "Resources tailored to support students from families and staff.")
  >>)

Features ==
  El("section", [className |-> "features", id |-> "learn-more"], <<
    Article("Course registration",
            "Step-by-step help with enrollment, deadlines, and prerequisites."),
    Article("Campus information",
            "Find maps, offices, events, and student services across campus."),
    Article("Parents & faculty",
            "Resources tailored to support students from families and staff.")
  >>)

AboutText ==
  "Rufus AI is a prototype assistant for UC Merced students, parents, and faculty -- a quick way to find answers about courses, registration, campus life, and support services."

About ==
  El("section", [className |-> "about", id |-> "students"], <<
    El("h3", NoAttrs, <<Txt("Who it's for")>>),
    El("p", NoAttrs, <<Txt(AboutText)>>)
  >>)

MainAboutFirst ==
  El("main", NoAttrs, <<About, Hero, Features>>)

Main ==
  El("main", NoAttrs, <<Hero, Features, About>>)

FooterText == "Built for UC Merced -- prototype. Contact: rufus@example.edu"

SiteFooter ==
  El("footer", [className |-> "site-footer"], <<
    El("p", NoAttrs, <<Txt(FooterText)>>)
  >>)

App ==
  El("div", [id |-> "root"], <<SiteHeader, Main, SiteFooter>>)

\* ------------------------------------------------------- tree traversal
RECURSIVE Walk(_, _)
RECURSIVE WalkChildren(_, _, _)

\* the nodes of the subtree n rooted at path, in document (pre-)order
Walk(n, path) ==
  <<[path |-> path, node |-> n]>> \o WalkChildren(n.children, path, 1)

WalkChildren(cs, path, i) ==
  IF i > Len(cs) THEN <<>>
  ELSE Walk(cs[i], Append(path, i)) \o WalkChildren(cs, path, i + 1)

IsElement(e) == e.node.tag # "#text"

\* the elements of tree d in document order
Elements(d) == SelectSeq(Walk(d, <<>>), IsElement)

ElementSet(d) ==
  LET es == Elements(d) IN {es[i] : i \in 1..Len(es)}

RECURSIVE TextContent(_)
RECURSIVE TextOfChildren(_, _)

\* the concatenated text of a node's descendants
TextContent(n) ==
  IF n.tag = "#text" THEN n.text ELSE TextOfChildren(n.children, 1)

TextOfChildren(cs, i) ==
  IF i > Len(cs) THEN ""
  ELSE TextContent(cs[i]) \o TextOfChildren(cs, i + 1)

HasAttr(e, a) == a \in DOMAIN e.node.attrs

Attr(e, a) == e.node.attrs[a]

AttrIs(e, a, v) == HasAttr(e, a) /\ Attr(e, a) = v

\* p is a proper ancestor path of q
IsAncestor(p, q) == Len(p) < Len(q) /\ SubSeq(q, 1, Len(p)) = p

Inside(e, anc) == IsAncestor(anc.path, e.path)

ByTag(d, tag) == {e \in ElementSet(d) : e.node.tag = tag}

ById(d, id) == {e \in ElementSet(d) : AttrIs(e, "id", id)}

\* ------------------------------------------------------ browser semantics
\* document.activeElement / :target when no element of the tree holds it
Body == <<0>>

HandlerAttrs == {"onClick", "onSubmit", "onChange", "onInput", "onKeyDown"}

\* attributes whose value is the id of another element
IdRefAttrs == {"aria-labelledby", "aria-describedby", "aria-controls", "htmlFor"}

HeadingTags == {"h1", "h2", "h3", "h4", "h5", "h6"}

Headings(d) == {e \in ElementSet(d) : e.node.tag \in HeadingTags}

\* what a user can operate: links, form controls, anything focusable or handled
Interactive(d) ==
  {e \in ElementSet(d) :
     \/ e.node.tag = "a" /\ HasAttr(e, "href")
     \/ e.node.tag \in {"button", "input", "select", "textarea"}
     \/ HasAttr(e, "tabIndex")
     \/ HasAttr(e, "contentEditable")
     \/ DOMAIN e.node.attrs \cap HandlerAttrs # {}}

\* the elements of d with one of the given tags, in document order
InOrder(d, tags) ==
  LET Keep(e) == e.node.tag \in tags IN SelectSeq(Elements(d), Keep)

\* the elements of d inside anc that have one of the given tags, in order
InOrderInside(d, anc, tags) ==
  LET Keep(e) == e.node.tag \in tags /\ Inside(e, anc) IN SelectSeq(Elements(d), Keep)

ClassIs(e, c) == AttrIs(e, "className", c)

Buttons(d) == ByTag(d, "button")

Links(d) == {e \in ByTag(d, "a") : HasAttr(e, "href")}

TextInputs(d) ==
  {e \in ByTag(d, "input") : ~HasAttr(e, "type") \/ Attr(e, "type") = "text"}

\* a button submits its form when it has a form owner and is a submit button
\* (type absent or "submit")
Submits(d, b) ==
  /\ \E f \in ByTag(d, "form") : Inside(b, f)
  /\ (~HasAttr(b, "type") \/ Attr(b, "type") = "submit")

\* the element a fragment navigates to: the elements whose id is the fragment
FragmentTargets(d, href) ==
  {e \in ElementSet(d) : HasAttr(e, "id") /\ "#" \o Attr(e, "id") = href}

\* index of element e in document order
Position(d, e) ==
  LET es == Elements(d) IN CHOOSE i \in 1..Len(es) : es[i] = e

\* the first matching element in document order, Body when there is none
TargetOf(d, href) ==
  LET ts == FragmentTargets(d, href) IN
    IF ts = {} THEN Body
    ELSE (CHOOSE e \in ts : \A o \in ts : Position(d, e) <= Position(d, o)).path

\* ----------------------------------------------------------------- state
VARIABLES
  doc,          \* the element tree of the latest render of App
  renders,      \* how many times App has been rendered
  inputValue,   \* the live value of the uncontrolled text input
  focus,        \* path of document.activeElement, Body when none
  location,     \* the fragment of the page URL, "" when none
  target,       \* path of the element the fragment scrolled to, Body when none
  activations,  \* button activations so far
  handlerCalls, \* event handlers of the component invoked so far
  submissions   \* form submissions (page loads / requests) so far

vars == <<doc, renders, inputValue, focus, location, target,
          activations, handlerCalls, submissions>>

Init ==
  /\ doc = App
  /\ renders = 1
  /\ inputValue = ""
  /\ focus = Body
  /\ location = ""
  /\ target = Body
  /\ activations = 0
  /\ handlerCalls = 0
  /\ submissions = 0

\* a re-render that depends on what the user typed
RenderEchoingInput ==
  /\ renders < MaxRenders
  /\ doc' = El("div", [id |-> "root", title |-> inputValue], App.children)
  /\ renders' = renders + 1
  /\ UNCHANGED <<inputValue, focus, location, target,
                 activations, handlerCalls, submissions>>

\* React calls App() again: no props, no hooks, the same tree
Render ==
  /\ renders < MaxRenders
  /\ doc' = App
  /\ renders' = renders + 1
  /\ UNCHANGED <<inputValue, focus, location, target,
                 activations, handlerCalls, submissions>>

\* the user clicks into the text input
FocusInput ==
  \E e \in TextInputs(doc) :
    /\ focus # e.path
    /\ focus' = e.path
    /\ UNCHANGED <<doc, renders, inputValue, location, target,
                   activations, handlerCalls, submissions>>

\* the user types a key into the focused text input; the input has neither
\* value nor onChange, so only the DOM value changes
TypeKey ==
  \E e \in TextInputs(doc), k \in Keys :
    /\ focus = e.path
    /\ Len(inputValue) < MaxLen
    /\ inputValue' = inputValue \o k
    /\ handlerCalls' = handlerCalls +
         (IF HasAttr(e, "onChange") \/ HasAttr(e, "onInput") THEN 1 ELSE 0)
    /\ UNCHANGED <<doc, renders, focus, location, target,
                   activations, submissions>>

\* the user activates a button
ClickButton ==
  \E b \in Buttons(doc) :
    /\ activations < MaxActivations
    /\ activations' = activations + 1
    /\ focus' = b.path
    /\ handlerCalls' = handlerCalls + (IF HasAttr(b, "onClick") THEN 1 ELSE 0)
    /\ submissions' = submissions + (IF Submits(doc, b) THEN 1 ELSE 0)
    /\ location' = (IF Submits(doc, b) THEN "" ELSE location)
    /\ target' = (IF Submits(doc, b) THEN Body ELSE target)
    /\ inputValue' = (IF Submits(doc, b) THEN "" ELSE inputValue)
    /\ UNCHANGED <<doc, renders>>

\* the user follows a link to a fragment of the page
ClickLink ==
  \E l \in Links(doc) :
    /\ location # Attr(l, "href")
    /\ location' = Attr(l, "href")
    /\ target' = TargetOf(doc, Attr(l, "href"))
    /\ focus' = l.path
    /\ handlerCalls' = handlerCalls + (IF HasAttr(l, "onClick") THEN 1 ELSE 0)
    /\ UNCHANGED <<doc, renders, inputValue, activations, submissions>>

Next ==
  \/ Render
  \/ FocusInput
  \/ TypeKey
  \/ ClickButton
  \/ ClickLink

Spec == Init /\ [][Next]_vars

\* ---------------------------------------------------------------- claims
NavLinks(d) == {l \in Links(d) : \E n \in ByTag(d, "nav") : Inside(l, n)}

\* C1: every primary navigation link (#students, #parents, #faculty) names
\* an id of the rendered document, and each of those ids occurs on exactly
\* one element.
C1_NavTargetsResolve ==
  /\ {Attr(l, "href") : l \in NavLinks(doc)} = {"#students", "#parents", "#faculty"}
  /\ \A l \in NavLinks(doc) :
       Cardinality(FragmentTargets(doc, Attr(l, "href"))) = 1

\* C2: rendering App is idempotent: whatever renders and user events
\* happen, every step leaves the document tree as it was.
C2_RenderIdempotent == [][doc' = doc]_vars

C2_Witness ==
  /\ renders >= 3
  /\ inputValue # ""
  /\ activations > 0
  /\ location # ""

ArticleTitles(d) ==
  LET arts == ByTag(d, "article")
      Keep(e) == e.node.tag \in HeadingTags /\ \E a \in arts : Inside(e, a)
      hs == SelectSeq(Elements(d), Keep)
  IN [i \in 1..Len(hs) |-> TextContent(hs[i].node)]

\* C3: the tree has exactly one heading with the hero text and exactly three
\* articles, all inside the features section, each with one heading, the
\* headings being in document order "Course registration", "Campus
\* information", "Parents & faculty".
C3_HeroAndArticles ==
  LET arts == ByTag(doc, "article")
      feats == {f \in ByTag(doc, "section") : ClassIs(f, "features")}
  IN /\ Cardinality({h \in Headings(doc) : TextContent(h.node) = HeroText}) = 1
     /\ Cardinality(arts) = 3
     /\ Cardinality(feats) = 1
     /\ \A a \in arts : \A f \in feats : Inside(a, f)
     /\ \A a \in arts : Cardinality({h \in Headings(doc) : Inside(h, a)}) = 1
     /\ ArticleTitles(doc) =
          <<"Course registration", "Campus information", "Parents & faculty">>

C3_Witness ==
  /\ renders >= 2
  /\ Len(ArticleTitles(doc)) = 3
  /\ \E h \in ByTag(doc, "h2") : TextContent(h.node) = HeroText

\* C4: the tree has exactly one text input; it has a non-empty accessible
\* label, aria-label "Ask Rufus", and the placeholder
\* "e.g., How do I register for CS 101?".
C4_SearchInput ==
  /\ Cardinality(TextInputs(doc)) = 1
  /\ Cardinality(ByTag(doc, "input")) = 1
  /\ \A i \in TextInputs(doc) :
       /\ HasAttr(i, "aria-label")
       /\ Attr(i, "aria-label") # ""
       /\ Attr(i, "aria-label") = "Ask Rufus"
       /\ AttrIs(i, "placeholder", "e.g., How do I register for CS 101?")

C4_Witness ==
  /\ inputValue # ""
  /\ \E i \in TextInputs(doc) : focus = i.path /\ HasAttr(i, "aria-label")

ButtonsStatic ==
  /\ {TextContent(b.node) : b \in Buttons(doc)} = {"Ask Rufus", "Get Started"}
  /\ Cardinality(Buttons(doc)) = 2
  /\ \A b \in Buttons(doc) :
       /\ DOMAIN b.node.attrs \cap HandlerAttrs = {}
       /\ ~ \E f \in ByTag(doc, "form") : Inside(b, f)

ActivationInert ==
  activations' # activations =>
    /\ doc' = doc
    /\ renders' = renders
    /\ inputValue' = inputValue
    /\ location' = location
    /\ target' = target
    /\ handlerCalls' = handlerCalls
    /\ submissions' = submissions

\* C5: the two buttons, "Ask Rufus" and "Get Started", are inert: neither
\* has a handler, neither is inside a form, and activating either, any number
\* of times, changes neither the tree nor any state and causes no navigation,
\* submission or handler call.
C5_ButtonsInert ==
  /\ [](ButtonsStatic /\ handlerCalls = 0 /\ submissions = 0)
  /\ [][ActivationInert]_vars

C5_Witness ==
  /\ activations >= 2
  /\ focus \in {b.path : b \in Buttons(doc)}
  /\ location # ""
  /\ inputValue # ""

\* C6: the header contains exactly one nav, with the non-empty accessible
\* name "Primary", and that nav contains exactly three links whose hrefs are
\* in document order #students, #parents, #faculty.
C6_PrimaryNav ==
  /\ Cardinality(ByTag(doc, "header")) = 1
  /\ \A h \in ByTag(doc, "header") :
       LET navs == {n \in ByTag(doc, "nav") : Inside(n, h)} IN
         /\ Cardinality(navs) = 1
         /\ \A n \in navs :
              LET as == InOrderInside(doc, n, {"a"}) IN
                /\ HasAttr(n, "aria-label")
                /\ Attr(n, "aria-label") # ""
                /\ Attr(n, "aria-label") = "Primary"
                /\ Len(as) = 3
                /\ \A i \in 1..3 : HasAttr(as[i], "href")
                /\ [i \in 1..3 |-> Attr(as[i], "href")] =
                     <<"#students", "#parents", "#faculty">>

C6_Witness ==
  /\ location = "#faculty"
  /\ \E l \in NavLinks(doc) : focus = l.path /\ Attr(l, "href") = location

Landmarks(d) == InOrder(d, {"header", "section", "footer"})

\* C7: the root container has, in document order, a header, the hero
\* section, the features section, the section with id "students" holding a
\* descriptive paragraph, and a footer with the contact text; the hero
\* section holds the heading, the text input, the "Ask Rufus" and "Get
\* Started" buttons and the "Learn more" link; the only interactive elements
\* of the document are those four and the three navigation links.
C7_PageStructure ==
  LET ls == Landmarks(doc) IN
    /\ doc.tag = "div" /\ doc.attrs["id"] = "root"
    /\ Len(ls) = 5
    /\ ls[1].node.tag = "header"
    /\ ls[2].node.tag = "section" /\ ClassIs(ls[2], "hero")
    /\ ls[3].node.tag = "section" /\ ClassIs(ls[3], "features")
    /\ ls[4].node.tag = "section" /\ AttrIs(ls[4], "id", "students")
    /\ \E p \in ByTag(doc, "p") : Inside(p, ls[4]) /\ TextContent(p.node) = AboutText
    /\ ls[5].node.tag = "footer"
    /\ TextContent(ls[5].node) = FooterText
    /\ \E h \in Headings(doc) : Inside(h, ls[2]) /\ TextContent(h.node) = HeroText
    /\ \E i \in TextInputs(doc) : Inside(i, ls[2])
    /\ \E b \in Buttons(doc) : Inside(b, ls[2]) /\ TextContent(b.node) = "Ask Rufus"
    /\ \E b \in Buttons(doc) : Inside(b, ls[2]) /\ TextContent(b.node) = "Get Started"
    /\ \E l \in Links(doc) : Inside(l, ls[2]) /\ TextContent(l.node) = "Learn more"
    /\ Cardinality(Interactive(doc)) = 7
    /\ Cardinality(NavLinks(doc)) = 3
    /\ \A e \in Interactive(doc) : e \in NavLinks(doc) \/ Inside(e, ls[2])
    /\ Cardinality({e \in Interactive(doc) : Inside(e, ls[2])}) = 4

C7_Witness ==
  /\ renders >= 2
  /\ Len(Landmarks(doc)) = 5
  /\ focus \in {e.path : e \in Interactive(doc)}
  /\ activations = 0

LearnLinks(d) ==
  {l \in Links(d) :
     /\ TextContent(l.node) = "Learn more"
     /\ \E r \in ByTag(d, "div") : ClassIs(r, "cta-row") /\ Inside(l, r)}

\* C8: the "Learn more" link of the call-to-action row has href #learn-more;
\* the id learn-more is on exactly one element, the features section, so
\* following the link lands on the section holding the three articles.
C8_LearnMore ==
  /\ Cardinality(LearnLinks(doc)) = 1
  /\ \A l \in LearnLinks(doc) : Attr(l, "href") = "#learn-more"
  /\ Cardinality(ById(doc, "learn-more")) = 1
  /\ \A s \in ById(doc, "learn-more") :
       /\ s.node.tag = "section"
       /\ ClassIs(s, "features")
       /\ Cardinality({a \in ByTag(doc, "article") : Inside(a, s)}) = 3
       /\ (\E l \in LearnLinks(doc) : location = Attr(l, "href")) => target = s.path

C8_Witness ==
  /\ location = "#learn-more"
  /\ target # Body
  /\ focus \in {l.path : l \in LearnLinks(doc)}

WithId(d) == {e \in ElementSet(d) : HasAttr(e, "id")}

IdRefs(d) ==
  {r \in ElementSet(d) \X IdRefAttrs : HasAttr(r[1], r[2])}

\* C9: the id values of the tree, root, hero-heading, learn-more and
\* students, are pairwise distinct, and every id reference resolves: the hero
\* section's aria-labelledby names an id that occurs exactly once, on the
\* hero heading inside that section.
C9_IdsDistinctAndResolved ==
  /\ {Attr(e, "id") : e \in WithId(doc)} = {"root", "hero-heading", "learn-more", "students"}
  /\ \A e1, e2 \in WithId(doc) : Attr(e1, "id") = Attr(e2, "id") => e1 = e2
  /\ \E s \in ByTag(doc, "section") : ClassIs(s, "hero") /\ HasAttr(s, "aria-labelledby")
  /\ \A r \in IdRefs(doc) :
       LET named == ById(doc, Attr(r[1], r[2])) IN
         /\ Cardinality(named) = 1
         /\ \A h \in named :
              /\ h.node.tag \in HeadingTags
              /\ TextContent(h.node) = HeroText
              /\ Inside(h, r[1])

C9_Witness ==
  /\ IdRefs(doc) # {}
  /\ Cardinality(WithId(doc)) = 4
  /\ location = "#students"
  /\ target \in {e.path : e \in ById(doc, "students")}

====
